---- MODULE Spec2Model ----
(***************************************************************************)
(* Model of the dbg_breakpoint crate: the per-platform debugger detection  *)
(* (src/src/dbg.rs), the conditional breakpoint built on it, and the       *)
(* SEH-guarded breakpoint routine of Windows (src/src/lib/dbg_win_seh.rs). *)
(*                                                                         *)
(* One thread of the program calls the public operations one after the     *)
(* other; each operation is cut into the steps between which the           *)
(* externally owned tracer state can change.  The environment (a debugger  *)
(* attaching or detaching, a debugger answering a first-chance event) is   *)
(* modelled by its own actions.                                            *)
(*                                                                         *)
(* Text is modelled as a sequence of tokens: the field name "TracerPid",   *)
(* the separator ":", the whitespace characters " " and "\t", the digits   *)
(* "0" and "1", and a second field name "Name".                            *)
(***************************************************************************)
EXTENDS Integers, Sequences, FiniteSets, TLC

\* ------------------------------------------------------------------ bounds

\* Operations the program calls in one run.
MaxCalls == 2
\* Attach / detach events of the environment in one run.
MaxEnvChanges == 2
\* Items (lines or failed reads) of a status file before its tail.
MaxLines == 2
\* Tokens of the line under test in the scan specification.
MaxLineLen == 4

\* ------------------------------------------------------- results (enums)

Detected == "Detected"
NotDetected == "NotDetected"

Ok(v) == [tag |-> "Ok", val |-> v]
Err(e) == [tag |-> "Err", val |-> e]
Some(v) == [tag |-> "Some", val |-> v]
NoResult == [tag |-> "None", val |-> "None"]
Panic == [tag |-> "Panic", val |-> "Internal error"]

\* ------------------------------------------------- text helpers (std::str)

SeqsUpTo(S, n) == UNION {[1..k -> S] : k \in 0..n}

IsWhitespace(c) == c \in {" ", "\t"}

\* str::starts_with
StartsWith(line, prefix) ==
    /\ Len(line) >= Len(prefix)
    /\ SubSeq(line, 1, Len(prefix)) = prefix

\* str::split(sep): the pieces between the separators, in order.
RECURSIVE Split(_, _)
Split(s, sep) ==
    IF \A i \in 1..Len(s) : s[i] # sep
    THEN <<s>>
    ELSE LET i == CHOOSE k \in 1..Len(s) :
                      s[k] = sep /\ \A j \in 1..(k - 1) : s[j] # sep
         IN <<SubSeq(s, 1, i - 1)>> \o Split(SubSeq(s, i + 1, Len(s)), sep)

\* Iterator::nth (0-based): an Option.
Nth(pieces, n) ==
    IF n + 1 <= Len(pieces)
    THEN [some |-> TRUE, val |-> pieces[n + 1]]
    ELSE [some |-> FALSE, val |-> <<>>]

\* Option::map_or, given the closure's value on the option's content
MapOr(default, opt, mapped) == IF opt.some THEN mapped ELSE default

RECURSIVE TrimStart(_)
TrimStart(s) ==
    IF Len(s) > 0 /\ IsWhitespace(Head(s)) THEN TrimStart(Tail(s)) ELSE s

RECURSIVE TrimEnd(_)
TrimEnd(s) ==
    IF Len(s) > 0 /\ IsWhitespace(s[Len(s)])
    THEN TrimEnd(SubSeq(s, 1, Len(s) - 1))
    ELSE s

\* str::trim
Trim(s) == TrimEnd(TrimStart(s))

\* ------------------------------------------------ integer helpers (i32)

\* Bit k of the two's complement representation of x (\div rounds down).
Bit(x, k) == (x \div (2 ^ k)) % 2

RECURSIVE BitAndFrom(_, _, _)
BitAndFrom(a, b, k) ==
    IF k > 30 THEN 0
    ELSE Bit(a, k) * Bit(b, k) * (2 ^ k) + BitAndFrom(a, b, k + 1)

\* a & b for a mask b >= 0.
BitAnd(a, b) == BitAndFrom(a, b, 0)

HexDigits == <<"0", "1", "2", "3", "4", "5", "6", "7",
               "8", "9", "a", "b", "c", "d", "e", "f">>

Nibble(x, k) == (x \div (16 ^ k)) % 16

RECURSIVE HexFrom(_, _)
HexFrom(x, k) ==
    IF k = 0 THEN <<HexDigits[Nibble(x, 0) + 1]>>
    ELSE <<HexDigits[Nibble(x, k) + 1]>> \o HexFrom(x, k - 1)

\* format!("{:x}", x) of an i32: the two's complement bits, no leading zeros.
LowerHex(x) ==
    LET used == {k \in 0..7 : Nibble(x, k) # 0}
        top == IF used = {} THEN 0
               ELSE CHOOSE k \in used : \A j \in used : j <= k
    IN HexFrom(x, top)

\* ------------------------------------------------- platform-specific data

Platforms == {"windows", "macos", "freebsd", "linux", "other"}
Archs == {"x86_64", "aarch64"}

P_TRACED_MACOS == 2048
P_TRACED_FREEBSD == 2

P_TRACED(p) == IF p = "macos" THEN P_TRACED_MACOS ELSE P_TRACED_FREEBSD

\* KinfoProc::is_traced, the flag test
IsTraced(p, flag) == BitAnd(flag, P_TRACED(p)) # 0

\* Return values of IsDebuggerPresent().
TebValues == {0, 1}

\* Values of the process flag word of the kernel record.
KinfoFlags == {0, 2, 2048, 18434}

\* ----------------------------------------------------- the status file

TracerPidPrefix == <<"TracerPid", ":">>

LineItem(l) == [kind |-> "line", text |-> l]
ReadErr == [kind |-> "err", text |-> <<>>]
EofItem == [kind |-> "eof", text |-> <<>>]
NoItem == [kind |-> "none", text |-> <<>>]

\* "TracerPid:\t<v>" as the kernel writes it, and another field's line.
TracerLine(v) == <<"TracerPid", ":", "\t", v>>
NameLine == <<"Name", ":", "\t", "1">>

\* A file that cannot be opened, and no file at all (other platforms).
Unopenable == [opens |-> FALSE, items |-> <<>>, tail |-> "eof"]

\* What the kernel shows for a process traced by pid v ("0": not traced).
KernelStatus(v) ==
    [opens |-> TRUE,
     items |-> <<LineItem(NameLine), LineItem(TracerLine(v))>>,
     tail |-> "eof"]

\* The items of the status files of the system specification: kernel lines,
\* a tracer field without a value, and a read that fails.
StatusItems ==
    {LineItem(TracerLine("0")), LineItem(TracerLine("1")),
     LineItem(TracerPidPrefix), LineItem(NameLine), ReadErr}

\* A file is the items its reads yield in order and then its tail: the end
\* of the file, or an error that every further read returns.
StatusFiles ==
    {Unopenable} \cup
    [opens : {TRUE}, items : SeqsUpTo(StatusItems, MaxLines),
     tail : {"eof", "err"}]

\* The scan specification: one line of any tokens, after one of a few
\* beginnings.
ScanAlphabet == {"TracerPid", ":", "0", "1", " "}
ScanLines == SeqsUpTo(ScanAlphabet, MaxLineLen)
ScanPrefixes == {<<>>, <<ReadErr>>, <<LineItem(NameLine)>>}
ScanFiles ==
    {[opens |-> TRUE, items |-> pre \o <<LineItem(l)>>, tail |-> t] :
        pre \in ScanPrefixes, l \in ScanLines, t \in {"eof", "err"}}

\* ------------------------------------------------------------- the state

VARIABLES
    platform,   \* target_os the crate was built for
    arch,       \* target_arch the crate was built for
    debugger,   \* a debugger is attached to the process
    teb,        \* what IsDebuggerPresent() returns
    kinfo,      \* the kernel's answer to sysctl: [ok, flag]
    status,     \* /proc/self/status
    epoch,      \* number of attach / detach events so far
    op,         \* the public operation in progress
    pc,         \* the thread's position
    pos,        \* items the BufReader has consumed
    item,       \* what Lines::next returned
    qres,       \* the result of os::is_debugger_present
    qstart,     \* epoch when the query began
    dbgAtRead,  \* whether a debugger was attached when the query read
    hist,       \* results of the queries, in order, with their epochs
    stdout,     \* what the process has printed
    eax,        \* return register (eax / w0), as an i32
    rsp,        \* stack pointer
    rspEntry,   \* stack pointer on entry to __dbg_breakpoint
    lr,         \* link register (aarch64)
    slot,       \* the stack slot the prologue saves lr to (aarch64)
    traps,      \* trap instructions executed by the operation in progress
    queries,    \* detection queries made by the operation in progress
    path,       \* how the guarded trap was resolved
    epilogues,  \* times the epilogue ran in the operation in progress
    ret,        \* what the last operation returned
    nCalls      \* operations called so far

vars == <<platform, arch, debugger, teb, kinfo, status, epoch, op, pc, pos,
          item, qres, qstart, dbgAtRead, hist, stdout, eax, rsp, rspEntry,
          lr, slot, traps, queries, path, epilogues, ret, nCalls>>

build == <<platform, arch>>
source == <<teb, kinfo, status>>
env == <<debugger, teb, kinfo, status, epoch>>
reader == <<pos, item>>
machine == <<eax, rsp, rspEntry, lr, slot, path, epilogues>>

\* Values a scratch register may hold when nothing has set it.
ScratchValues == {0, -1, 7}

StackPointers == {4096}

ThreadInit ==
    /\ epoch = 0 /\ op = "none" /\ pc = "idle"
    /\ pos = 0 /\ item = NoItem
    /\ qres = NoResult /\ qstart = 0 /\ dbgAtRead = FALSE
    /\ hist = <<>> /\ stdout = <<>>
    /\ eax = 0 /\ rsp \in StackPointers /\ rspEntry = rsp
    /\ lr = "caller" /\ slot = "none"
    /\ traps = 0 /\ queries = 0 /\ path = "none" /\ epilogues = 0
    /\ ret = NoResult /\ nCalls = 0

Init ==
    /\ platform \in Platforms
    /\ arch \in (IF platform = "windows" THEN Archs ELSE {"x86_64"})
    /\ debugger \in BOOLEAN
    /\ teb \in (IF platform = "windows" THEN TebValues ELSE {0})
    /\ kinfo \in (IF platform \in {"macos", "freebsd"}
                  THEN [ok : BOOLEAN, flag : KinfoFlags]
                  ELSE {[ok |-> FALSE, flag |-> 0]})
    /\ status \in (IF platform = "linux" THEN StatusFiles ELSE {Unopenable})
    /\ ThreadInit

InitScan ==
    /\ platform = "linux" /\ arch = "x86_64"
    /\ debugger = FALSE /\ teb = 0
    /\ kinfo = [ok |-> FALSE, flag |-> 0]
    /\ status \in ScanFiles
    /\ ThreadInit

\* ------------------------------------------- the environment: a debugger

\* The tracer state the OS shows once a debugger has attached / detached.
\* While the thread is stopped in a first-chance event the debugger stays.
Attach ==
    /\ ~debugger /\ epoch < MaxEnvChanges
    /\ pc \notin {"terminated", "panicked", "wild"}
    /\ debugger' = TRUE
    /\ epoch' = epoch + 1
    /\ teb' = IF platform = "windows" THEN 1 ELSE teb
    /\ kinfo' = IF platform \in {"macos", "freebsd"} /\ ~IsTraced(platform, kinfo.flag)
                THEN [kinfo EXCEPT !.flag = @ + P_TRACED(platform)]
                ELSE kinfo
    /\ status' = IF platform = "linux" THEN KernelStatus("1") ELSE status
    /\ UNCHANGED <<build, op, pc, reader, qres, qstart, dbgAtRead, hist,
                   stdout, machine, traps, queries, ret, nCalls>>

Detach ==
    /\ debugger /\ epoch < MaxEnvChanges
    /\ pc \notin {"dbg_event", "terminated", "panicked", "wild"}
    /\ debugger' = FALSE
    /\ epoch' = epoch + 1
    /\ teb' = IF platform = "windows" THEN 0 ELSE teb
    /\ kinfo' = IF platform \in {"macos", "freebsd"} /\ IsTraced(platform, kinfo.flag)
                THEN [kinfo EXCEPT !.flag = @ - P_TRACED(platform)]
                ELSE kinfo
    /\ status' = IF platform = "linux" THEN KernelStatus("0") ELSE status
    /\ UNCHANGED <<build, op, pc, reader, qres, qstart, dbgAtRead, hist,
                   stdout, machine, traps, queries, ret, nCalls>>

\* --------------------------------------------- dbg.rs: is_debugger_present

CallEntry(o, p) ==
    /\ pc = "idle" /\ nCalls < MaxCalls
    /\ op' = o /\ pc' = p
    /\ nCalls' = nCalls + 1
    /\ qres' = NoResult /\ ret' = NoResult
    /\ traps' = 0 /\ queries' = 0 /\ path' = "none" /\ epilogues' = 0
    /\ item' = NoItem

\* The program calls is_debugger_present().
CallIsDebuggerPresent ==
    /\ CallEntry("query", "q_entry")
    /\ UNCHANGED <<build, env, pos, qstart, dbgAtRead, hist, stdout,
                   eax, rsp, rspEntry, lr, slot>>

\* The program calls breakpoint_if_debugging().
CallBreakpointIfDebugging ==
    /\ CallEntry("cond", "c_entry")
    /\ UNCHANGED <<build, env, pos, qstart, dbgAtRead, hist, stdout,
                   eax, rsp, rspEntry, lr, slot>>

\* breakpoint_if_debugging calls is_debugger_present().
CondQuery ==
    /\ pc = "c_entry"
    /\ pc' = "q_entry"
    /\ UNCHANGED <<build, env, op, reader, qres, qstart, dbgAtRead, hist,
                   stdout, machine, traps, queries, ret, nCalls>>

\* windows: the TEB flag
TebPresence(v) == IF v # 0 THEN Ok(Detected) ELSE Ok(NotDetected)

QueryTeb ==
    /\ pc = "q_entry" /\ platform = "windows"
    /\ qres' = TebPresence(teb)
    /\ pc' = "q_ret"
    /\ qstart' = epoch /\ dbgAtRead' = debugger /\ queries' = queries + 1
    /\ UNCHANGED <<build, env, op, reader, hist, stdout, machine, traps,
                   ret, nCalls>>

\* macos, freebsd: the kernel's process record
SysctlFailed == Err("DetectionFailed")

SysctlPresence(p, k) ==
    IF k.ok
    THEN IF IsTraced(p, k.flag) THEN Ok(Detected) ELSE Ok(NotDetected)
    ELSE SysctlFailed

\* What is_traced prints for the record it is given.
TracedOutput(p, flag) == IF p = "macos" THEN <<LowerHex(flag)>> ELSE <<>>

QuerySysctl ==
    /\ pc = "q_entry" /\ platform \in {"macos", "freebsd"}
    /\ qres' = SysctlPresence(platform, kinfo)
    /\ stdout' = IF kinfo.ok
                 THEN stdout \o TracedOutput(platform, kinfo.flag)
                 ELSE stdout
    /\ pc' = "q_ret"
    /\ qstart' = epoch /\ dbgAtRead' = debugger /\ queries' = queries + 1
    /\ UNCHANGED <<build, env, op, reader, hist, machine, traps, ret, nCalls>>

\* The open failure reported as a failed detection.
OpenFailedAsDetectionFailed == Err("DetectionFailed")

\* linux: /proc/self/status
OpenFailed == Err("NotImplemented")

\* A stale reader position: the previous call's.
StalePosition == pos

\* Items consumed by a reader that has just been made.
OpenPosition == 0

QueryOpen ==
    /\ pc = "q_entry" /\ platform = "linux"
    /\ qstart' = epoch /\ dbgAtRead' = debugger /\ queries' = queries + 1
    /\ IF status.opens
       THEN /\ pos' = OpenPosition
            /\ pc' = "q_next"
            /\ UNCHANGED qres
       ELSE /\ qres' = OpenFailed
            /\ pc' = "q_ret"
            /\ UNCHANGED pos
    /\ UNCHANGED <<build, env, op, item, hist, stdout, machine, traps, ret,
                   nCalls>>

\* Lines::next on a reader that has consumed p items of file f: the next
\* line, a failed read, or the end.  A failed read does not end the iterator.
ReadItem(f, p) ==
    IF p < Len(f.items) THEN f.items[p + 1]
    ELSE IF f.tail = "eof" THEN EofItem ELSE ReadErr

QueryNext ==
    /\ pc = "q_next"
    /\ item' = ReadItem(status, pos)
    /\ pos' = IF pos < Len(status.items) THEN pos + 1 ELSE pos
    /\ dbgAtRead' = debugger
    /\ pc' = "q_item"
    /\ UNCHANGED <<build, env, op, qres, qstart, hist, stdout, machine,
                   traps, queries, ret, nCalls>>

\* |pid| pid.trim() != "0"
PidIsNotZero(pid) == Trim(pid) # <<"0">>

\* The tracer line's verdict.
LinePresence(line) ==
    LET piece == Nth(Split(line, ":"), 1)
    IN IF MapOr(FALSE, piece, PidIsNotZero(piece.val))
       THEN Ok(Detected)
       ELSE Ok(NotDetected)

\* A missing tracer line taken for "not traced".
ScanExhaustedNotDetected == Ok(NotDetected)

\* The loop ended without a tracer line.
ScanExhausted == Err("DetectionFailed")

\* flatten() drops a failed read; the loop body looks at a line.
QueryItem ==
    /\ pc = "q_item"
    /\ CASE item.kind = "eof" ->
                qres' = ScanExhausted /\ pc' = "q_ret"
         [] item.kind = "err" ->
                pc' = "q_next" /\ UNCHANGED qres
         [] item.kind = "line" /\ StartsWith(item.text, TracerPidPrefix) ->
                qres' = LinePresence(item.text) /\ pc' = "q_ret"
         [] OTHER ->
                pc' = "q_next" /\ UNCHANGED qres
    /\ UNCHANGED <<build, env, op, reader, qstart, dbgAtRead, hist, stdout,
                   machine, traps, queries, ret, nCalls>>

\* every other target
QueryOther ==
    /\ pc = "q_entry" /\ platform = "other"
    /\ qres' = Err("NotImplemented")
    /\ pc' = "q_ret"
    /\ qstart' = epoch /\ dbgAtRead' = debugger /\ queries' = queries + 1
    /\ UNCHANGED <<build, env, op, reader, hist, stdout, machine, traps,
                   ret, nCalls>>

\* is_debugger_present returns to its caller.
QueryReturn ==
    /\ pc = "q_ret"
    /\ hist' = Append(hist, [res |-> qres, e0 |-> qstart, e1 |-> epoch])
    /\ item' = NoItem
    /\ IF op = "query"
       THEN pc' = "idle" /\ ret' = qres
       ELSE pc' = "c_check" /\ UNCHANGED ret
    /\ UNCHANGED <<build, env, op, pos, qres, qstart, dbgAtRead, stdout,
                   machine, traps, queries, nCalls>>

\* ------------------------------------------ dbg.rs: breakpoint_if_debugging

\* Trap on any Ok answer.
ShouldTrapAnyOk(r) == r.tag = "Ok"

\* Trap when a debugger is attached now, whatever the query said.
ShouldTrapRecheck(r) == debugger

\* if let Ok(DebuggerPresence::Detected) = ...
ShouldTrap(r) == r = Ok(Detected)

CondCheck ==
    /\ pc = "c_check"
    /\ pc' = IF ShouldTrap(qres) THEN "c_trap" ELSE "idle"
    /\ UNCHANGED <<build, env, op, reader, qres, qstart, dbgAtRead, hist,
                   stdout, machine, traps, queries, ret, nCalls>>

\* std::intrinsics::breakpoint(): a debugger takes the trap, or the OS ends
\* the process.
CondTrap ==
    /\ pc = "c_trap"
    /\ traps' = traps + 1
    /\ pc' = IF debugger THEN "dbg_event" ELSE "terminated"
    /\ UNCHANGED <<build, env, op, reader, qres, qstart, dbgAtRead, hist,
                   stdout, machine, queries, ret, nCalls>>

\* ------------------------------- the debugger's answer to a first-chance event

\* The debugger continues past the trap instruction.
DebuggerContinue ==
    /\ pc = "dbg_event"
    /\ IF op = "seh"
       THEN pc' = "s_mov" /\ path' = "debugger"
       ELSE pc' = "idle" /\ UNCHANGED path
    /\ UNCHANGED <<build, env, op, reader, qres, qstart, dbgAtRead, hist,
                   stdout, eax, rsp, rspEntry, lr, slot, epilogues, traps,
                   queries, ret, nCalls>>

\* The debugger declines the exception: the OS looks for a handler in the
\* process, and ends the process when there is none.
DebuggerPass ==
    /\ pc = "dbg_event"
    /\ pc' = IF op = "seh" THEN "s_flt" ELSE "terminated"
    /\ UNCHANGED <<build, env, op, reader, qres, qstart, dbgAtRead, hist,
                   stdout, machine, traps, queries, ret, nCalls>>

\* ------------------------------------- dbg_win_seh.rs: __dbg_breakpoint

\* The program calls breakpoint_if_debugging_seh(), which calls the routine;
\* the return register holds whatever the caller left in it.
CallSeh ==
    /\ platform = "windows"
    /\ CallEntry("seh", "s_entry")
    /\ rspEntry' = rsp
    /\ eax' \in ScratchValues
    /\ UNCHANGED <<build, env, pos, qstart, dbgAtRead, hist, stdout, rsp,
                   lr, slot>>

\* Bytes of stack the prologue allocates.
FrameSize(a) == IF a = "x86_64" THEN 64 ELSE 16

\* sub rsp, 64 / str lr, [sp, #-16]!
SehPrologue ==
    /\ pc = "s_entry"
    /\ rsp' = rsp - FrameSize(arch)
    /\ slot' = IF arch = "aarch64" THEN lr ELSE slot
    /\ pc' = "s_trap"
    /\ UNCHANGED <<build, env, op, reader, qres, qstart, dbgAtRead, hist,
                   stdout, eax, rspEntry, lr, path, epilogues, traps,
                   queries, ret, nCalls>>

\* 1: int3 / brk #0xf000.  An attached debugger gets the first chance.
SehTrap ==
    /\ pc = "s_trap"
    /\ traps' = traps + 1
    /\ pc' = IF debugger THEN "dbg_event" ELSE "s_flt"
    /\ UNCHANGED <<build, env, op, reader, qres, qstart, dbgAtRead, hist,
                   stdout, machine, queries, ret, nCalls>>

\* The instructions between labels 1 and 2 of the scope table.
InTry(p) == p \in {"s_trap", "s_mov"}

\* __dbg_breakpoint_flt: EXCEPTION_EXECUTE_HANDLER
FilterValue == 1

\* The handler returns without running the epilogue.
HandlerTargetRet == "s_ret"

\* jmp 3b / b 3b
HandlerTarget == "s_L3"

\* __C_specific_handler with the routine's scope table: the filter decides;
\* execute-handler unwinds to the routine's frame and enters label 4 with
\* the scratch registers in any state.
SehFilter ==
    /\ pc = "s_flt"
    /\ IF InTry("s_trap") /\ FilterValue > 0
       THEN /\ pc' = "s_hnd"
            /\ path' = "handler"
            /\ eax' \in ScratchValues
            /\ lr' = IF arch = "aarch64" THEN "clobbered" ELSE lr
       ELSE /\ pc' = IF InTry("s_trap") /\ FilterValue < 0
                     THEN "s_trap" ELSE "terminated"
            /\ UNCHANGED <<path, eax, lr>>
    /\ UNCHANGED <<build, env, op, reader, qres, qstart, dbgAtRead, hist,
                   stdout, rsp, rspEntry, slot, epilogues, traps, queries,
                   ret, nCalls>>

\* 4: xor eax, eax ; jmp 3b
SehHandler ==
    /\ pc = "s_hnd"
    /\ eax' = 0
    /\ pc' = HandlerTarget
    /\ UNCHANGED <<build, env, op, reader, qres, qstart, dbgAtRead, hist,
                   stdout, rsp, rspEntry, lr, slot, path, epilogues, traps,
                   queries, ret, nCalls>>

\* mov eax, -1 (the instruction after the trap)
SehMov ==
    /\ pc = "s_mov"
    /\ eax' = -1
    /\ pc' = "s_L3"
    /\ UNCHANGED <<build, env, op, reader, qres, qstart, dbgAtRead, hist,
                   stdout, rsp, rspEntry, lr, slot, path, epilogues, traps,
                   queries, ret, nCalls>>

\* 3: add rsp, 64 / ldr lr, [sp], #16
SehEpilogue ==
    /\ pc = "s_L3"
    /\ rsp' = rsp + FrameSize(arch)
    /\ lr' = IF arch = "aarch64" THEN slot ELSE lr
    /\ epilogues' = epilogues + 1
    /\ pc' = "s_ret"
    /\ UNCHANGED <<build, env, op, reader, qres, qstart, dbgAtRead, hist,
                   stdout, eax, rspEntry, slot, path, traps, queries, ret,
                   nCalls>>

\* ret: to the address on top of the stack (x86_64) or in lr (aarch64); with
\* the wrong stack pointer or link register the thread goes anywhere.
SehRet ==
    /\ pc = "s_ret"
    /\ pc' = IF (arch = "x86_64" /\ rsp = rspEntry) \/
                (arch = "aarch64" /\ lr = "caller")
             THEN "s_match" ELSE "wild"
    /\ UNCHANGED <<build, env, op, reader, qres, qstart, dbgAtRead, hist,
                   stdout, machine, traps, queries, ret, nCalls>>

\* The arms of the match exchanged.
SehResultSwapped(code) ==
    CASE code = 0 -> Some(Detected)
      [] code = -1 -> Some(NotDetected)
      [] OTHER -> Panic

\* match unsafe { __dbg_breakpoint() }
SehResult(code) ==
    CASE code = 0 -> Some(NotDetected)
      [] code = -1 -> Some(Detected)
      [] OTHER -> Panic

SehMatch ==
    /\ pc = "s_match"
    /\ ret' = SehResult(eax)
    /\ pc' = IF SehResult(eax) = Panic THEN "panicked" ELSE "idle"
    /\ UNCHANGED <<build, env, op, reader, qres, qstart, dbgAtRead, hist,
                   stdout, machine, traps, queries, nCalls>>

\* ------------------------------------------------------ specifications

Query ==
    \/ QueryTeb
    \/ QuerySysctl
    \/ QueryOpen
    \/ QueryNext
    \/ QueryItem
    \/ QueryOther
    \/ QueryReturn

Thread ==
    \/ CallIsDebuggerPresent
    \/ CallBreakpointIfDebugging
    \/ CallSeh
    \/ CondQuery
    \/ Query
    \/ CondCheck
    \/ CondTrap
    \/ SehPrologue
    \/ SehTrap
    \/ SehFilter
    \/ SehHandler
    \/ SehMov
    \/ SehEpilogue
    \/ SehRet
    \/ SehMatch

Debugger ==
    \/ DebuggerContinue
    \/ DebuggerPass

Next ==
    \/ Thread
    \/ Debugger
    \/ Attach
    \/ Detach

Spec == Init /\ [][Next]_vars

\* The thread is scheduled, and a debugger holding the thread answers.
SpecLive == Init /\ [][Next]_vars /\ WF_vars(Thread) /\ WF_vars(Debugger)

\* One build (linux), no debugger: the scan of any line.
NextScan ==
    \/ CallIsDebuggerPresent
    \/ QueryOpen
    \/ QueryNext
    \/ QueryItem
    \/ QueryReturn

SpecScan == InitScan /\ [][NextScan]_vars

\* ------------------------------------------------------------ properties

\* No attach or detach since the query in progress first read its source.
Quiet == qstart = epoch

QueryPcs == {"q_entry", "q_next", "q_item", "q_ret"}

IsTracerItem(it) == it.kind = "line" /\ StartsWith(it.text, TracerPidPrefix)

HasTracerLine(f) == \E i \in 1..Len(f.items) : IsTracerItem(f.items[i])

\* The first line of the tracer field that a read of f yields.
FirstTracerLine(f) ==
    LET i == CHOOSE k \in 1..Len(f.items) :
                 /\ IsTracerItem(f.items[k])
                 /\ \A j \in 1..(k - 1) : ~IsTracerItem(f.items[j])
    IN f.items[i].text

\* The text after the field's separator.
ValueAfterSeparator(line) == SubSeq(line, Len(TracerPidPrefix) + 1, Len(line))

\* A decimal number, whitespace around it allowed.
UsableValue(v) ==
    /\ Trim(v) # <<>>
    /\ \A i \in 1..Len(Trim(v)) : Trim(v)[i] \in {"0", "1"}

\* C1: on linux, when the status file opens and holds a TracerPid line, the
\* query returns Ok: NotDetected when the text after the separator, trimmed,
\* is "0", and Detected for every other text.
C1_TracerLineVerdict ==
    (pc = "q_ret" /\ platform = "linux" /\ status.opens /\ HasTracerLine(status))
    => qres = (IF Trim(ValueAfterSeparator(FirstTracerLine(status))) = <<"0">>
               THEN Ok(NotDetected)
               ELSE Ok(Detected))

\* C2: every call of the guarded trap returns to its caller, with
\* Some(Detected) exactly when a debugger took the trap and resumed after it
\* and Some(NotDetected) exactly when the routine's own handler ran; the
\* process is never ended by it.
C2_GuardedTrapReturns ==
    /\ [](op = "seh" => pc \notin {"terminated", "panicked", "wild"})
    /\ (op = "seh" /\ pc = "s_entry") ~>
           (/\ op = "seh" /\ pc = "idle"
            /\ \/ path = "debugger" /\ ret = Some(Detected)
               \/ path = "handler" /\ ret = Some(NotDetected))

\* C2 witness: with no debugger attached the call has returned
\* Some(NotDetected) through the handler.
C2_Witness ==
    /\ op = "seh" /\ pc = "idle" /\ ~debugger /\ epoch = 0
    /\ path = "handler" /\ ret = Some(NotDetected)

\* C3: breakpoint_if_debugging makes one query and executes the trap if and
\* only if that query returned Ok(Detected); otherwise it returns with no
\* trap executed.
C3_TrapIffDetected ==
    op = "cond" =>
        /\ queries <= 1 /\ traps <= 1
        /\ (pc \in {"c_trap", "dbg_event", "terminated"} \/ traps > 0)
               => qres = Ok(Detected)
        /\ pc = "idle" => (queries = 1 /\ (traps = 1 <=> qres = Ok(Detected)))
        /\ pc = "c_check" => (queries = 1 /\ traps = 0)

\* C3 witness: the query said Detected and the trap has been executed.
C3_Witness ==
    op = "cond" /\ pc = "dbg_event" /\ traps = 1 /\ qres = Ok(Detected)

\* C4: the error of the query is fixed per platform: none on windows;
\* DetectionFailed exactly when sysctl fails on macos and freebsd, never
\* NotImplemented; on linux NotImplemented exactly when the file cannot be
\* opened and DetectionFailed exactly when it opened and no TracerPid line was
\* found; NotImplemented always on the other platforms.
C4_ErrorPerPlatform ==
    (pc = "q_ret" /\ Quiet) =>
        CASE platform = "windows" -> qres.tag = "Ok"
          [] platform \in {"macos", "freebsd"} ->
                /\ qres = Err("DetectionFailed") <=> ~kinfo.ok
                /\ qres.tag = "Err" => qres = Err("DetectionFailed")
          [] platform = "linux" ->
                /\ qres = Err("NotImplemented") <=> ~status.opens
                /\ qres = Err("DetectionFailed")
                       <=> (status.opens /\ ~HasTracerLine(status))
                /\ qres.tag \in {"Ok", "Err"}
          [] OTHER -> qres = Err("NotImplemented")

\* C4 witness: linux, the file opened, a read failed, no tracer line:
\* DetectionFailed.
C4_Witness ==
    /\ pc = "q_ret" /\ Quiet /\ platform = "linux" /\ status.opens
    /\ \E i \in 1..Len(status.items) : status.items[i] = ReadErr
    /\ qres = Err("DetectionFailed")

\* C5: two consecutive queries with no attach or detach from the first one's
\* read to the second one's return give equal results.
C5_Idempotent ==
    \A i \in 1..(Len(hist) - 1) :
        hist[i].e0 = hist[i + 1].e1 => hist[i].res = hist[i + 1].res

\* C5 witness: two queries of an unchanged status file have both returned
\* Ok(Detected).
C5_Witness ==
    /\ Len(hist) = 2 /\ hist[1].e0 = hist[2].e1
    /\ platform = "linux" /\ hist[2].res = Ok(Detected)

\* C6: a step of the query leaves everything but its own locals unchanged:
\* the tracer state, the output stream, the registers.
C6_QueryIsPure ==
    [][(pc \in QueryPcs /\ pc' # pc)
           => UNCHANGED <<source, debugger, stdout, machine>>]_vars

C8_ConditionalTrapTotal ==
    (op = "cond" /\ pc = "c_entry") ~> (op = "cond" /\ pc \in {"idle", "c_trap"})

\* C9: the guarded trap routine executes the trap at most once per call and
\* never comes back to it, both paths run the one epilogue once, and at the
\* return instruction the stack pointer is what it was on entry.
C9_OneTrapOneEpilogue ==
    op = "seh" =>
        /\ traps <= 1 /\ epilogues <= 1
        /\ pc = "s_trap" => traps = 0
        /\ pc \in {"s_ret", "s_match", "idle", "panicked"}
               => (epilogues = 1 /\ rsp = rspEntry /\ path # "none")
        /\ pc # "wild"

\* C9 witness: the handler path is at the return instruction.
C9_Witness ==
    op = "seh" /\ pc = "s_ret" /\ path = "handler" /\ traps = 1

\* C10: the gap between query and trap is open.  Once the query has answered
\* anything but Detected, no trap is executed in this call, also when a
\* debugger attaches afterwards; the witness is the other half, a trap
\* executed after the debugger the query saw has detached.
C10_LateAttachNotTrapped ==
    (op = "cond" /\ qres # NoResult /\ qres # Ok(Detected))
    => (traps = 0 /\ pc \notin {"c_trap", "dbg_event", "terminated"})

\* C10 witness: the query saw an attached debugger, it detached, and the
\* trap ended the process.
C10_Witness ==
    /\ op = "cond" /\ pc = "terminated" /\ traps = 1
    /\ dbgAtRead /\ ~debugger /\ qres = Ok(Detected)
====
